---- MODULE Spec2Model ----
(***************************************************************************)
(* Model of the phase-shift engine and the /api/calculate handler of       *)
(* simple-server.py.                                                       *)
(*                                                                         *)
(* Numbers.  The program computes in Python floats (IEEE-754 binary64).    *)
(* The model keeps the structure of that arithmetic -- sign, mantissa,     *)
(* binary exponent, round-to-nearest-even, overflow to inf, inf/nan        *)
(* propagation, and the exceptions CPython raises (ZeroDivisionError on    *)
(* float division by zero, OverflowError from math.exp, ValueError /       *)
(* OverflowError from int()) -- with the exponent range of binary64 and a  *)
(* mantissa of MantBits bits instead of 53.  Two simplifications: results  *)
(* below the normal range flush to zero (no subnormals) and zero carries   *)
(* no sign.                                                                *)
(*                                                                         *)
(* A number is a record [k, s, m, e]:                                      *)
(*   k = "fin": the value s * m * 2^e, m = 0 or 2^(MantBits-1) <= m <      *)
(*              2^MantBits;  k = "inf": s * infinity;  k = "nan";          *)
(*   any other k: the name of the exception the evaluation raised.         *)
(***************************************************************************)
EXTENDS Integers, Sequences, FiniteSets, TLC

\* The position and the locals of DWBAHandler.do_POST (pc .. post_data), the
\* run the server is compared with (memo) and the cell tasks (tasks).
VARIABLES pc, req, i, j, phase_shifts, r_matrices, potentials, cross_sections,
          sent, call, post_data, memo, tasks

MantBits == 14
EMax == 1023
EMin == -1022

Pow2Table ==
    <<2, 4, 8, 16, 32, 64, 128, 256, 512, 1024, 2048, 4096, 8192, 16384, 32768,
      65536, 131072, 262144, 524288, 1048576, 2097152, 4194304, 8388608,
      16777216, 33554432, 67108864, 134217728, 268435456, 536870912, 1073741824>>

\* 2^n for 0 <= n <= 30.
Pow2(n) == IF n <= 0 THEN 1 ELSE Pow2Table[n]

BitLen4(n) == IF n < 4 THEN (IF n < 2 THEN n ELSE 2) ELSE (IF n < 8 THEN 3 ELSE 4)

BitLen8(n) == IF n < 16 THEN BitLen4(n) ELSE 4 + BitLen4(n \div 16)

BitLen16(n) == IF n < 256 THEN BitLen8(n) ELSE 8 + BitLen8(n \div 256)

\* The number of binary digits of n, 0 <= n < 2^31.
BitLen(n) == IF n < 65536 THEN BitLen16(n) ELSE 16 + BitLen16(n \div 65536)

Abs(n) == IF n < 0 THEN -n ELSE n

Sgn(n) == IF n < 0 THEN -1 ELSE 1

Zero == [k |-> "fin", s |-> 1, m |-> 0, e |-> 0]

Inf(s) == [k |-> "inf", s |-> s, m |-> 0, e |-> 0]

NaN == [k |-> "nan", s |-> 1, m |-> 0, e |-> 0]

Raise(name) == [k |-> name, s |-> 1, m |-> 0, e |-> 0]

IsExc(a) == a.k \notin {"fin", "inf", "nan"}

IsFinite(a) == a.k = "fin"

IsZero(a) == a.k = "fin" /\ a.m = 0

\* A normalised mantissa and its exponent: overflow gives inf, underflow zero.
Pack(s, m, e) ==
    IF e + MantBits - 1 > EMax THEN Inf(s)
    ELSE IF e + MantBits - 1 < EMin THEN Zero
    ELSE [k |-> "fin", s |-> s, m |-> m, e |-> e]

\* A rounded mantissa q1 <= 2^MantBits: the carry out of the top bit.
Carry(s, q1, E) ==
    IF q1 = Pow2(MantBits) THEN Pack(s, q1 \div 2, E + 1) ELSE Pack(s, q1, E)

\* q + r / d rounded to the nearest integer, ties to the even one.
RoundEven(q, r, d) ==
    IF r > d \div 2 \/ (r = d \div 2 /\ q % 2 = 1) THEN q + 1 ELSE q

\* M brought to MantBits digits by a shift of sh places.
Shift(s, M, E, sh) ==
    IF sh <= 0 THEN Pack(s, M * Pow2(-sh), E + sh)
    ELSE Carry(s, RoundEven(M \div Pow2(sh), M % Pow2(sh), Pow2(sh)), E + sh)

\* The float nearest to s * M * 2^E (ties to even), 0 <= M < 2^31.
Norm(s, M, E) == IF M = 0 THEN Zero ELSE Shift(s, M, E, BitLen(M) - MantBits)

\* M with the sticky bit (nonzero discarded remainder) folded into its last bit.
Sticky(M, lost) == IF lost /\ M % 2 = 0 THEN M + 1 ELSE M

\* The float nearest to T * 2^E, T of either sign.
SignedNorm(T, E) == Norm(Sgn(T), Abs(T), E)

FromInt(n) == SignedNorm(n, 0)

FNeg(a) ==
    IF a.k = "inf" \/ (a.k = "fin" /\ a.m # 0) THEN [a EXCEPT !.s = -a.s] ELSE a

FMul(a, b) ==
    IF IsExc(a) THEN a
    ELSE IF IsExc(b) THEN b
    ELSE IF a.k = "nan" \/ b.k = "nan" THEN NaN
    ELSE IF a.k = "inf" \/ b.k = "inf"
         THEN IF IsZero(a) \/ IsZero(b) THEN NaN ELSE Inf(a.s * b.s)
    ELSE Norm(a.s * b.s, a.m * b.m, a.e + b.e)

\* Python's float / float: a zero divisor raises whatever the dividend is.
FDiv(a, b) ==
    IF IsExc(a) THEN a
    ELSE IF IsExc(b) THEN b
    ELSE IF IsZero(b) THEN Raise("ZeroDivisionError")
    ELSE IF a.k = "nan" \/ b.k = "nan" THEN NaN
    ELSE IF a.k = "inf" THEN IF b.k = "inf" THEN NaN ELSE Inf(a.s * b.s)
    ELSE IF b.k = "inf" \/ a.m = 0 THEN Zero
    ELSE LET G   == 30 - MantBits
             num == a.m * Pow2(G)
             q1  == num \div b.m
             r1  == num % b.m
             q   == q1 * 8 + (r1 * 8) \div b.m
             st  == (r1 * 8) % b.m # 0
         IN Norm(a.s * b.s, Sticky(q, st), a.e - b.e - G - 3)

\* big + small from their mantissas on three guard bits: B of big, S of small
\* shifted to the exponent of big, lost when the shift dropped a nonzero digit.
AddMantissas(big, small, B, S, lost) ==
    IF lost
    THEN Norm(big.s, Sticky(IF big.s = small.s THEN B + S ELSE B - S - 1, TRUE),
              big.e - 3)
    ELSE SignedNorm(big.s * B + small.s * S, big.e - 3)

\* big + small for nonzero finite operands, big.e >= small.e.
AddAligned(big, small) ==
    IF big.e - small.e > MantBits + 3 THEN big
    ELSE AddMantissas(big, small, big.m * 8,
                      (small.m * 8) \div Pow2(big.e - small.e),
                      (small.m * 8) % Pow2(big.e - small.e) # 0)

FAdd(a, b) ==
    IF IsExc(a) THEN a
    ELSE IF IsExc(b) THEN b
    ELSE IF a.k = "nan" \/ b.k = "nan" THEN NaN
    ELSE IF a.k = "inf" THEN IF b.k = "inf" /\ b.s # a.s THEN NaN ELSE a
    ELSE IF b.k = "inf" THEN b
    ELSE IF a.m = 0 THEN b
    ELSE IF b.m = 0 THEN a
    ELSE AddAligned(IF a.e >= b.e THEN a ELSE b, IF a.e >= b.e THEN b ELSE a)

FSub(a, b) == FAdd(a, FNeg(b))

\* a < b on numbers; any comparison with nan is false.
FLt(a, b) ==
    IF a.k = "nan" \/ b.k = "nan" THEN FALSE
    ELSE IF a.k = "inf" THEN a.s = -1 /\ ~(b.k = "inf" /\ b.s = -1)
    ELSE IF b.k = "inf" THEN b.s = 1
    ELSE IF a.m = 0 THEN b.m # 0 /\ b.s = 1
    ELSE IF b.m = 0 THEN a.s = -1
    ELSE IF a.s # b.s THEN a.s = -1
    ELSE IF a.s = 1 THEN a.e < b.e \/ (a.e = b.e /\ a.m < b.m)
    ELSE a.e > b.e \/ (a.e = b.e /\ a.m > b.m)

FGt(a, b) == FLt(b, a)

FLe(a, b) == FLt(a, b) \/ (a.k # "nan" /\ a = b)

\* The decimal literal n/d of the source text, rounded as the parser rounds it.
Dec(n, d) == FDiv(FromInt(n), FromInt(d))

One == FromInt(1)


\* Python's int(q): truncation toward zero of a finite number.
Trunc(q) ==
    IF q.k # "fin" \/ q.m = 0 THEN 0
    ELSE IF q.e >= 0 THEN q.s * q.m * Pow2(q.e)
    ELSE IF -q.e > 30 THEN 0
    ELSE q.s * (q.m \div Pow2(-q.e))

\* What int(q) raises: nothing ("fin"), ValueError on nan, OverflowError on inf.
IntRaises(q) ==
    IF IsExc(q) THEN q.k
    ELSE IF q.k = "nan" THEN "ValueError"
    ELSE IF q.k = "inf" THEN "OverflowError"
    ELSE ""

\* floor of a finite number of magnitude below 2^(31 - MantBits).
Floor(t) ==
    IF t.m = 0 THEN 0
    ELSE IF t.e >= 0 THEN t.s * t.m * Pow2(t.e)
    ELSE LET d == IF -t.e > 30 THEN Pow2(30) ELSE Pow2(-t.e)
             q == t.m \div d
         IN IF t.s = 1 THEN q
            ELSE IF t.m % d = 0 /\ -t.e <= 30 THEN -q ELSE -q - 1

LOG2E == Dec(14427, 10000)

\* The bound on |x * log2(e)| past which exp(x) is outside the exponent range.
ExpRange == FromInt(2048)

\* 2^f for 0 <= f < 1 (cubic through 2^0 = 1 and 2^1 = 2).
Exp2C1 == Dec(6958, 10000)

Exp2C2 == Dec(2251, 10000)

Exp2C3 == Dec(791, 10000)

Exp2Frac(f) ==
    FAdd(One, FMul(f, FAdd(Exp2C1, FMul(f, FAdd(Exp2C2, FMul(f, Exp2C3))))))

\* math.exp: e^x = 2^k * 2^f with k + f = x * log2(e); a result above the
\* largest float raises OverflowError, one below the smallest is 0.
\* g * 2^k for 1 <= g < 2.
Exp2Scale(g, k) ==
    IF Pack(1, g.m, g.e + k).k = "inf" THEN Raise("OverflowError")
    ELSE Pack(1, g.m, g.e + k)

\* 2^t = 2^k * 2^(t - k) for k = floor(t).
Exp2Split(t, k) == Exp2Scale(Exp2Frac(FSub(t, FromInt(k))), k)

\* 2^t for a number t.
Exp2(t) ==
    IF t.k = "inf" \/ ~FLt(t, ExpRange)
    THEN IF t.s = 1 THEN Raise("OverflowError") ELSE Zero
    ELSE IF FLt(t, FNeg(ExpRange)) THEN Zero
    ELSE Exp2Split(t, Floor(t))

exp(x) ==
    IF IsExc(x) THEN x
    ELSE IF x.k = "nan" THEN NaN
    ELSE IF x.k = "inf" THEN IF x.s = 1 THEN Inf(1) ELSE Zero
    ELSE Exp2(FMul(x, LOG2E))

HalfPi == Dec(15708, 10000)

QuarterPi == Dec(7854, 10000)

\* atan(y) for 0 <= y <= 1.
AtanC1 == Dec(2447, 10000)

AtanC2 == Dec(663, 10000)

AtanUnit(y) ==
    FMul(y, FAdd(QuarterPi, FMul(FSub(One, y), FAdd(AtanC1, FMul(AtanC2, y)))))

\* atan(y) for y >= 0: atan(y) = pi/2 - atan(1/y) above 1.
AtanPositive(y) ==
    IF FLe(y, One) THEN AtanUnit(y) ELSE FSub(HalfPi, AtanUnit(FDiv(One, y)))

\* v for s = 1 and -v for s = -1.
WithSign(s, v) == IF s = 1 THEN v ELSE FNeg(v)

\* math.atan: odd, atan(+-inf) = +-pi/2, atan(nan) = nan, never raises.
atan(x) ==
    IF IsExc(x) THEN x
    ELSE IF x.k = "nan" THEN NaN
    ELSE IF x.k = "inf" THEN IF x.s = 1 THEN HalfPi ELSE FNeg(HalfPi)
    ELSE WithSign(x.s, AtanPositive(WithSign(x.s, x)))

SinC1 == FromInt(6)

SinC2 == FromInt(20)

SinC3 == FromInt(42)

\* x * (1 - x2/6 * (1 - x2/20 * (1 - x2/42))) for x2 = x * x.
SinSeries(x, x2) ==
    FMul(x, FSub(One, FMul(FDiv(x2, SinC1),
                           FSub(One, FMul(FDiv(x2, SinC2),
                                          FSub(One, FDiv(x2, SinC3)))))))

\* math.sin on [-pi/2, pi/2] (the range of atan): x - x^3/6 + x^5/120 - x^7/5040.
sin(x) ==
    IF IsExc(x) THEN x
    ELSE IF x.k = "nan" THEN NaN
    ELSE IF x.k = "inf" THEN Raise("ValueError")
    ELSE SinSeries(x, FMul(x, x))

\* math.pow(x, 2): an overflowing result of finite operands raises.
pow2(x) ==
    LET r == FMul(x, x)
    IN IF IsFinite(x) /\ r.k = "inf" THEN Raise("OverflowError") ELSE r

(***************************************************************************)
(* Physical constants                                                      *)
(***************************************************************************)
HBARC == Dec(1977, 10)

MU == 745

MASS_FACTOR == FDiv(FromInt(2 * MU), FMul(HBARC, HBARC))

Z1Z2EE == FMul(FromInt(2), Dec(144, 100))

dr == Dec(1, 1000)

(***************************************************************************)
(* Potentials                                                              *)
(***************************************************************************)
\* The Fermi function without the 1 of its denominator.
woods_saxon_no_unit(r, V0, R0, a0) ==
    FDiv(FNeg(V0), exp(FDiv(FSub(r, R0), a0)))

woods_saxon(r, V0, R0, a0) ==
    FDiv(FNeg(V0), FAdd(One, exp(FDiv(FSub(r, R0), a0))))

coulomb_potential(r, r0) ==
    IF FGt(r, r0) THEN FDiv(Z1Z2EE, r)
    ELSE FDiv(FMul(r, Z1Z2EE), FMul(r0, r0))


(***************************************************************************)
(* Radial integration.  A loop state holds the locals of the while loop;   *)
(* exc names the exception that ended it, "" when none was raised.         *)
(***************************************************************************)
IntegratorInit ==
    [x |-> dr, pot |-> Zero, d2udr2 |-> FDiv(One, dr),
     dudr |-> One, ur |-> dr, n |-> 0, exc |-> ""]

\* The first exception among the values of a statement sequence, "" if none.
RECURSIVE FirstExc(_)
FirstExc(vals) ==
    IF vals = <<>> THEN ""
    ELSE IF IsExc(Head(vals)) THEN Head(vals).k
    ELSE FirstExc(Tail(vals))

\* The six assignments that end an iteration, reached when none of the four
\* new values raised.
step_commit(st, new_pot, new_d2udr2, new_dudr, new_ur) ==
    IF FirstExc(<<new_pot, new_d2udr2, new_dudr, new_ur>>) # ""
    THEN [st EXCEPT !.exc = FirstExc(<<new_pot, new_d2udr2, new_dudr, new_ur>>)]
    ELSE [x |-> FAdd(st.x, dr), pot |-> new_pot, d2udr2 |-> new_d2udr2,
          dudr |-> new_dudr, ur |-> new_ur, n |-> st.n + 1, exc |-> ""]

\* The iteration with new_ur = ur + dudr * dr, the slope before its update.
step_from_dudr_explicit(st, new_pot, new_d2udr2, new_dudr) ==
    step_commit(st, new_pot, new_d2udr2, new_dudr,
                FAdd(st.ur, FMul(st.dudr, dr)))

\* new_ur = ur + new_dudr * dr, and the rest of the iteration.
step_from_dudr(st, new_pot, new_d2udr2, new_dudr) ==
    step_commit(st, new_pot, new_d2udr2, new_dudr,
                FAdd(st.ur, FMul(new_dudr, dr)))

\* new_dudr = dudr + new_d2udr2 * dr, and the rest of the iteration.
step_from_d2udr2(st, new_pot, new_d2udr2) ==
    step_from_dudr(st, new_pot, new_d2udr2, FAdd(st.dudr, FMul(new_d2udr2, dr)))

\* new_d2udr2 = ((L * (L + 1)) / (x * x) + MASS_FACTOR * (new_pot - E)) * ur,
\* and the rest of the iteration.
step_from_pot(st, E, L, new_pot) ==
    step_from_d2udr2(st, new_pot,
                     FMul(FAdd(FDiv(FromInt(L * (L + 1)), FMul(st.x, st.x)),
                               FMul(MASS_FACTOR, FSub(new_pot, E))),
                          st.ur))

\* The value a function returns from its loop state: ur / dudr.
loop_ratio(st) == IF st.exc # "" THEN Raise(st.exc) ELSE FDiv(st.ur, st.dudr)

\* One iteration of the loop of r_matrix_nuclear_only.
nuclear_only_step(st, E, V0, R0, a0, L) ==
    step_from_pot(st, E, L, woods_saxon(st.x, V0, R0, a0))

RECURSIVE nuclear_only_loop(_, _, _, _, _, _, _)
nuclear_only_loop(st, N, E, V0, R0, a0, L) ==
    IF st.exc # "" \/ ~(st.n < N) THEN st
    ELSE nuclear_only_loop(nuclear_only_step(st, E, V0, R0, a0, L),
                           N, E, V0, R0, a0, L)

\* The loop state r_matrix_nuclear_only holds when it reaches its return.
nuclear_only_run(E, V0, R0, a0, a, L) ==
    LET q == FDiv(a, dr)
    IN IF IntRaises(q) # "" THEN [IntegratorInit EXCEPT !.exc = IntRaises(q)]
       ELSE nuclear_only_loop(IntegratorInit, Trunc(q), E, V0, R0, a0, L)

r_matrix_nuclear_only(E, V0, R0, a0, a, L) ==
    loop_ratio(nuclear_only_run(E, V0, R0, a0, a, L))

\* One iteration of the loop of r_matrix_coulomb_nuclear.
coulomb_nuclear_step(st, E, V0, R0, a0, L) ==
    step_from_pot(st, E, L,
                  FAdd(coulomb_potential(st.x, R0), woods_saxon(st.x, V0, R0, a0)))

RECURSIVE coulomb_nuclear_loop(_, _, _, _, _, _, _)
coulomb_nuclear_loop(st, N, E, V0, R0, a0, L) ==
    IF st.exc # "" \/ ~(st.n < N) THEN st
    ELSE coulomb_nuclear_loop(coulomb_nuclear_step(st, E, V0, R0, a0, L),
                              N, E, V0, R0, a0, L)

\* The loop state r_matrix_coulomb_nuclear holds when it reaches its return.
coulomb_nuclear_run(E, V0, R0, a0, a, L) ==
    LET q == FDiv(a, dr)
    IN IF IntRaises(q) # "" THEN [IntegratorInit EXCEPT !.exc = IntRaises(q)]
       ELSE coulomb_nuclear_loop(IntegratorInit, Trunc(q), E, V0, R0, a0, L)

\* The Coulomb + nuclear ratio without the division by a.
r_matrix_coulomb_nuclear_unscaled(E, V0, R0, a0, a, L) ==
    loop_ratio(coulomb_nuclear_run(E, V0, R0, a0, a, L))

r_matrix_coulomb_nuclear(E, V0, R0, a0, a, L) ==
    FDiv(loop_ratio(coulomb_nuclear_run(E, V0, R0, a0, a, L)), a)

(***************************************************************************)
(* Phase shift.  The frame holds the arguments and the locals of one call  *)
(* of nuclear_phase_shift; a local the call never assigned, because an     *)
(* earlier statement raised, holds that exception.                         *)
(***************************************************************************)
RefV0 == Zero

RefR0 == Dec(20, 10)

RefA0 == Dec(6, 10)

\* The last two statements of the call: the difference and its arctangent.
frame_return(E, V0, R0, a0, a, L, R_coulomb_nuclear, R_coulomb_only, R_nuclear) ==
    [E |-> E, V0 |-> V0, R0 |-> R0, a0 |-> a0, a |-> a, L |-> L,
     R_coulomb_nuclear |-> R_coulomb_nuclear,
     R_coulomb_only |-> R_coulomb_only,
     R_nuclear |-> R_nuclear,
     ret |-> atan(R_nuclear)]

\* The frame from the values of the two R-matrix calls; the second call is
\* made only when the first one returned.
frame_locals(E, V0, R0, a0, a, L, R_coulomb_nuclear, R_reference) ==
    frame_return(E, V0, R0, a0, a, L, R_coulomb_nuclear,
                 IF IsExc(R_coulomb_nuclear) THEN R_coulomb_nuclear
                 ELSE R_reference,
                 FSub(R_coulomb_nuclear, R_reference))

nuclear_phase_shift_frame_own(E, V0, R0, a0, a, L) ==
    frame_locals(E, V0, R0, a0, a, L,
                 r_matrix_coulomb_nuclear(E, V0, R0, a0, a, L),
                 r_matrix_nuclear_only(E, V0, R0, a0, a, L))

nuclear_phase_shift_frame(E, V0, R0, a0, a, L) ==
    frame_locals(E, V0, R0, a0, a, L,
                 r_matrix_coulomb_nuclear(E, V0, R0, a0, a, L),
                 r_matrix_nuclear_only(E, RefV0, RefR0, RefA0, a, L))

nuclear_phase_shift(E, V0, R0, a0, a, L) ==
    nuclear_phase_shift_frame(E, V0, R0, a0, a, L).ret


(***************************************************************************)
(* Cross-section of one energy: sum(pow(sin(phase), 2) for L in L_values). *)
(***************************************************************************)
\* Python's sum() of a list of floats: a left fold of + from the int 0.
RECURSIVE SumFrom(_, _)
SumFrom(acc, terms) ==
    IF terms = <<>> THEN acc
    ELSE SumFrom(FAdd(acc, Head(terms)), Tail(terms))

total_cs_weighted(E, V0, R0, a0, radius, L_values) ==
    SumFrom(Zero,
            [n \in 1..Len(L_values) |->
                FMul(FromInt(2 * L_values[n] + 1),
                     pow2(sin(nuclear_phase_shift(E, V0, R0, a0, radius,
                                                  L_values[n]))))])

\* The sum taken from a table of totals kept from the remembered request.
total_cs_remembered(E, V0, R0, a0, radius, L_values) ==
    IF memo.set /\ \E n \in 1..Len(memo.cross_sections) :
                      memo.cross_sections[n].energy = E
    THEN memo.cross_sections[CHOOSE n \in 1..Len(memo.cross_sections) :
                                memo.cross_sections[n].energy = E].total_cross_section
    ELSE SumFrom(Zero,
                 [n \in 1..Len(L_values) |->
                     pow2(sin(nuclear_phase_shift(E, V0, R0, a0, radius,
                                                  L_values[n])))])

\* The sum with every term recomputed for the last L of L_values.
total_cs_last_L(E, V0, R0, a0, radius, L_values) ==
    SumFrom(Zero,
            [n \in 1..Len(L_values) |->
                pow2(sin(nuclear_phase_shift(E, V0, R0, a0, radius,
                                             L_values[Len(L_values)])))])

total_cs(E, V0, R0, a0, radius, L_values) ==
    SumFrom(Zero,
            [n \in 1..Len(L_values) |->
                pow2(sin(nuclear_phase_shift(E, V0, R0, a0, radius, L_values[n])))])

\* The frame of the last nuclear_phase_shift call the sum makes: the first
\* one that raises, else the one of the last L.
RECURSIVE LastFrame(_)
LastFrame(frames) ==
    IF IsExc(Head(frames).ret) \/ Len(frames) = 1 THEN Head(frames)
    ELSE LastFrame(Tail(frames))

LastCall(E, V0, R0, a0, radius, Ls) ==
    LastFrame([n \in 1..Len(Ls) |->
                  nuclear_phase_shift_frame(E, V0, R0, a0, radius, Ls[n])])

\* The radii of the potential sweep: [r * 0.1 for r in range(1, 101)].
\* Python's range(first, stop): the integers from first up to stop - 1.
range(first, stop) == [k \in 1..(stop - first) |-> first + k - 1]

\* The sweep with the last radius left out.
NRadii_exclusive == Len(range(1, 100))

NRadii == Len(range(1, 101))

\* A sweep in steps of 0.2, from 0.2 to 20.0.
Fifth == Dec(1, 5)

Tenth == Dec(1, 10)

radii_channel(n) == FMul(FromInt(n), FDiv(req.radius, FromInt(NRadii)))

radii(n) == FMul(FromInt(n), Tenth)

(***************************************************************************)
(* Requests.  Lengths are in units of the integration step, so that a      *)
(* channel radius of MaxSteps steps keeps an integration short; energies   *)
(* and depths are of the size at which MASS_FACTOR * (V - E) * dr * dr is  *)
(* of order 1 and every term of the recurrence shows in the result.        *)
(***************************************************************************)
MaxEnergies == 2

MaxLs == 2

MaxSteps == 3

SeqsUpTo(S, n) == UNION {[1..k -> S] : k \in 0..n}

E22 == FromInt(Pow2(22))

\* A finite energy whose integration overflows after two steps.
EHuge == Pack(1, Pow2(MantBits - 1), 1000)

\* The energy at which u'(dr + dr) is exactly 0 for L = 0 and a free particle.
EZeroDeriv == Norm(1, 12808, 11)

V23 == FromInt(Pow2(23))

\* The depth at which r_matrix_nuclear_only(E22, VSing, SmallR0, StdA0, dr, 0)
\* ends on u' = 0 while the Coulomb + nuclear integration does not.
VSing == Norm(1, 10764, 12)

SmallR0 == Dec(5, 10000)

EnergyValues == {E22, EHuge}

LValues == {0, 1}

Steps(k) == FMul(FromInt(k), dr)

StdR0 == Steps(2)

StdA0 == Dec(6, 10)

Request(es, ls, V0, R0, a0, radius) ==
    [energies |-> es, L_values |-> ls, V0 |-> V0, R0 |-> R0, a0 |-> a0,
     radius |-> radius]

\* Every grid shape, duplicates included, on one parameter set.
GridRequests ==
    {Request(es, ls, V23, StdR0, StdA0, Steps(MaxSteps)) :
        es \in SeqsUpTo(EnergyValues, MaxEnergies),
        ls \in SeqsUpTo(LValues, MaxLs)}

\* Every parameter set, the ones outside the advertised ranges included.
ParamSets ==
    {<<V0, StdR0, StdA0, Steps(k)>> : V0 \in {Zero, V23}, k \in 0..MaxSteps}
    \cup {<<V23, StdR0, a0, Steps(MaxSteps)>> :
            a0 \in {Zero, Dec(-6, 10), Dec(1, 100)}}
    \cup {<<V23, R0, StdA0, Steps(MaxSteps)>> : R0 \in {Zero, Dec(-2, 1)}}
    \cup {<<V23, StdR0, StdA0, radius>> : radius \in {Steps(-1), Dec(5, 10000)}}
    \cup {<<VSing, SmallR0, StdA0, Steps(1)>>}

ProbeEnergies == {<<>>, <<E22>>, <<E22, EZeroDeriv>>, <<EHuge>>}

ProbeLs == {<<0>>, <<1, 0>>}

ParamRequests ==
    {Request(es, ls, p[1], p[2], p[3], p[4]) :
        es \in ProbeEnergies, ls \in ProbeLs, p \in ParamSets}

\* Nuclear radii the potential sweep passes through, with no grid to integrate.
SweepRequests ==
    {Request(<<>>, <<0>>, V23, radii(1), StdA0, Steps(1)),
     Request(<<>>, <<0>>, VSing, radii(30), Dec(1, 100), Steps(1)),
     Request(<<>>, <<0>>, Zero, radii(100), StdA0, Steps(1))}

\* Requests whose Coulomb term vanishes beside the nuclear one at every
\* radius of the integration: absorbed by rounding, or zero for a huge R0.
TwinRequests ==
    {Request(<<E22>>, <<1>>, V23, FromInt(1), StdA0, Steps(2)),
     Request(<<E22>>, <<0>>, V23, EHuge, StdA0, Steps(2))}

Requests == GridRequests \cup ParamRequests \cup SweepRequests \cup TwinRequests

(***************************************************************************)
(* Request bodies.  A body is its text class and, for a text json.loads    *)
(* accepts, the value json.loads returns; a string is the sequence of its  *)
(* characters.  Python's json.loads accepts the literal NaN where a number *)
(* is expected, which RFC 8259 does not allow.                             *)
(***************************************************************************)
JNull == [t |-> "null"]

JBool(b) == [t |-> "bool", b |-> b]

JInt(n) == [t |-> "int", n |-> n]

JFloat(v) == [t |-> "float", v |-> v]

JStr(chars) == [t |-> "str", chars |-> chars]

JList(items) == [t |-> "list", items |-> items]

JObject(members) == [t |-> "dict", members |-> members]

Body(text, value) == [text |-> text, value |-> value]

DigitValue ==
    ("0" :> 0) @@ ("1" :> 1) @@ ("2" :> 2) @@ ("3" :> 3) @@ ("4" :> 4) @@
    ("5" :> 5) @@ ("6" :> 6) @@ ("7" :> 7) @@ ("8" :> 8) @@ ("9" :> 9)

IsDigits(cs) == cs # <<>> /\ \A k \in 1..Len(cs) : cs[k] \in DOMAIN DigitValue

\* The number a sequence of decimal digits writes.
RECURSIVE DigitsValue(_)
DigitsValue(cs) ==
    IF cs = <<>> THEN 0
    ELSE 10 * DigitsValue(SubSeq(cs, 1, Len(cs) - 1)) + DigitValue[cs[Len(cs)]]

RECURSIVE Pow10(_)
Pow10(n) == IF n = 0 THEN 1 ELSE 10 * Pow10(n - 1)

\* The position of the first "." of cs, 0 when it has none.
RECURSIVE PointAt(_, _)
PointAt(cs, k) ==
    IF k > Len(cs) THEN 0 ELSE IF cs[k] = "." THEN k ELSE PointAt(cs, k + 1)

\* float() of an unsigned decimal: digits with at most one ".", which may
\* come first or last.
unsigned_float(cs, point) ==
    IF point = 0
    THEN IF IsDigits(cs) THEN FromInt(DigitsValue(cs)) ELSE Raise("ValueError")
    ELSE IF Len(cs) > 1
            /\ \A k \in 1..Len(cs) : k = point \/ cs[k] \in DOMAIN DigitValue
    THEN Dec(DigitsValue(SubSeq(cs, 1, point - 1) \o SubSeq(cs, point + 1, Len(cs))),
             Pow10(Len(cs) - point))
    ELSE Raise("ValueError")

\* float() of a string: nan, a decimal with an optional sign, or ValueError.
float_of_str(cs) ==
    IF cs = <<"n", "a", "n">> THEN NaN
    ELSE IF cs # <<>> /\ cs[1] = "-"
    THEN FNeg(unsigned_float(Tail(cs), PointAt(Tail(cs), 1)))
    ELSE unsigned_float(cs, PointAt(cs, 1))

\* float(v) of a value json.loads returned.
to_float(v) ==
    IF v.t = "float" THEN v.v
    ELSE IF v.t = "int" THEN FromInt(v.n)
    ELSE IF v.t = "bool" THEN FromInt(IF v.b THEN 1 ELSE 0)
    ELSE IF v.t = "str" THEN float_of_str(v.chars)
    ELSE Raise("TypeError")

\* What int(v) raises, "" when it returns.
int_raises(v) ==
    IF v.t = "float" THEN IntRaises(v.v)
    ELSE IF v.t \in {"int", "bool"} THEN ""
    ELSE IF v.t = "str"
    THEN IF IsDigits(v.chars) \/ (v.chars # <<>> /\ v.chars[1] = "-"
                                   /\ IsDigits(Tail(v.chars)))
         THEN "" ELSE "ValueError"
    ELSE "TypeError"

\* int(v) when it returns: a float is truncated toward zero.
to_int(v) ==
    IF v.t = "float" THEN Trunc(v.v)
    ELSE IF v.t = "int" THEN v.n
    ELSE IF v.t = "bool" THEN (IF v.b THEN 1 ELSE 0)
    ELSE IF v.chars[1] = "-" THEN -DigitsValue(Tail(v.chars))
    ELSE DigitsValue(v.chars)

\* The items a comprehension iterates: of a list its items, of a string its
\* characters.
items_of(v) ==
    IF v.t = "list" THEN v.items
    ELSE [k \in 1..Len(v.chars) |-> JStr(<<v.chars[k]>>)]

\* The first exception a sequence of exception names holds, "" if none.
RECURSIVE FirstRaised(_)
FirstRaised(names) ==
    IF names = <<>> THEN ""
    ELSE IF Head(names) # "" THEN Head(names)
    ELSE FirstRaised(Tail(names))

float_raises(v) == IF IsExc(to_float(v)) THEN to_float(v).k ELSE ""

\* What [float(e) for e in v] raises.
float_list_raises(v) ==
    IF v.t \notin {"list", "str"} THEN "TypeError"
    ELSE FirstRaised([k \in 1..Len(items_of(v)) |-> float_raises(items_of(v)[k])])

\* What [int(L) for L in v] raises.
int_list_raises(v) ==
    IF v.t \notin {"list", "str"} THEN "TypeError"
    ELSE FirstRaised([k \in 1..Len(items_of(v)) |-> int_raises(items_of(v)[k])])

RequestFields == <<"energies", "L_values", "V0", "R0", "a0", "radius">>

\* What the conversion of params[name] raises.
field_raises(members, name) ==
    IF name \notin DOMAIN members THEN "KeyError"
    ELSE IF name = "energies" THEN float_list_raises(members[name])
    ELSE IF name = "L_values" THEN int_list_raises(members[name])
    ELSE float_raises(members[name])

\* What the first seven statements of the try block raise, "" when the six
\* locals are assigned.
parse_raises(body) ==
    IF body.text = "garbage" THEN "JSONDecodeError"
    ELSE IF body.value.t # "dict" THEN "TypeError"
    ELSE FirstRaised([k \in 1..Len(RequestFields) |->
                         field_raises(body.value.members, RequestFields[k])])

\* The six locals the conversions assign.
parse_locals(members) ==
    Request([k \in 1..Len(items_of(members.energies)) |->
                to_float(items_of(members.energies)[k])],
            [k \in 1..Len(items_of(members.L_values)) |->
                to_int(items_of(members.L_values)[k])],
            to_float(members.V0), to_float(members.R0), to_float(members.a0),
            to_float(members.radius))

\* The body a client writes for a request: numbers as JSON numbers.
Encode(r) ==
    Body("json",
         JObject([energies |-> JList([k \in 1..Len(r.energies) |->
                                         JFloat(r.energies[k])]),
                  L_values |-> JList([k \in 1..Len(r.L_values) |->
                                         JInt(r.L_values[k])]),
                  V0 |-> JFloat(r.V0), R0 |-> JFloat(r.R0), a0 |-> JFloat(r.a0),
                  radius |-> JFloat(r.radius)]))

StdMembers == Encode(Request(<<E22>>, <<0>>, V23, StdR0, StdA0, Steps(1))).value.members

\* members without the member name.
Without(members, name) == [f \in DOMAIN members \ {name} |-> members[f]]

NotANumber == {JNull, JStr(<<"a", "b", "c">>), JList(<<JInt(1)>>)}

\* Bodies that are not JSON, lack a field or hold a value no conversion takes.
MalformedBodies ==
    {Body("garbage", JNull), Body("json", JList(<<JInt(1)>>))}
    \cup {Body("json", JObject(Without(StdMembers, RequestFields[k]))) :
            k \in 1..Len(RequestFields)}
    \cup {Body("json", JObject([StdMembers EXCEPT ![name] = v])) :
            name \in {"V0", "R0", "a0", "radius"}, v \in NotANumber}
    \cup {Body("json", JObject([StdMembers EXCEPT !.energies = v])) :
            v \in {JNull, JInt(5), JList(<<JStr(<<"a", "b", "c">>)>>),
                   JList(<<JFloat(E22), JNull>>)}}
    \cup {Body("json", JObject([StdMembers EXCEPT !.L_values = v])) :
            v \in {JNull, JList(<<JNull>>), JList(<<JStr(<<"1", ".", "5">>)>>)}}

\* A body with the literal NaN in the place of the energy.
NaNLiteralBody ==
    Body("json with NaN",
         JObject([StdMembers EXCEPT !.energies = JList(<<JFloat(NaN)>>)]))

\* Bodies whose values are not the numbers the API documents and convert.
LooseBodies ==
    {NaNLiteralBody}
    \cup {Body("json", JObject([StdMembers EXCEPT !.L_values = v])) :
            v \in {JList(<<JInt(-1)>>), JList(<<JInt(-2), JInt(1)>>),
                   JList(<<JFloat(Dec(15, 10))>>), JStr(<<"1", "0">>)}}
    \cup {Body("json", JObject([StdMembers EXCEPT !.V0 = JStr(<<"4", "0">>),
                                                  !.energies = JStr(<<"7">>)]))}

Bodies == {Encode(r) : r \in Requests} \cup MalformedBodies \cup LooseBodies

NoBody == Body("", JNull)

(***************************************************************************)
(* DWBAHandler.do_POST on /api/calculate.                                  *)
(***************************************************************************)
vars == <<pc, req, i, j, phase_shifts, r_matrices, potentials, cross_sections,
          sent, call, post_data, memo, tasks>>

NoRequest ==
    [energies |-> <<>>, L_values |-> <<>>, V0 |-> Zero, R0 |-> Zero, a0 |-> Zero,
     radius |-> Zero]

\* No earlier run is remembered.
NoMemo ==
    [set |-> FALSE, between |-> FALSE, post_data |-> NoBody, status |-> 0,
     phase_shifts |-> <<>>, r_matrices |-> <<>>, potentials |-> <<>>,
     cross_sections |-> <<>>]

Init ==
    /\ pc = "idle"
    /\ req = NoRequest
    /\ i = 1
    /\ j = 1
    /\ phase_shifts = <<>>
    /\ r_matrices = <<>>
    /\ potentials = <<>>
    /\ cross_sections = <<>>
    /\ sent = <<>>
    /\ call = <<>>
    /\ post_data = NoBody
    /\ memo = NoMemo
    /\ tasks = <<>>

ErrorResponse_partial(name) ==
    [status |-> 500,
     body |-> [success |-> FALSE, error |-> name,
               data |-> [phase_shifts |-> phase_shifts]]]

\* The except clause: status 500 and a body without data.
ErrorResponse(name) ==
    [status |-> 500, body |-> [success |-> FALSE, error |-> name]]

\* The response with the Woods-Saxon parameters echoed as [V0, a0, R0].
SuccessResponse_swapped ==
    [status |-> 200,
     body |-> [success |-> TRUE,
               data |-> [phase_shifts |-> phase_shifts,
                         r_matrices |-> r_matrices,
                         potentials |-> potentials,
                         cross_sections |-> cross_sections,
                         parameters |-> [energies |-> req.energies,
                                         L_values |-> req.L_values,
                                         ws_params |-> <<req.V0, req.a0, req.R0>>,
                                         radius |-> req.radius]]]]

SuccessResponse ==
    [status |-> 200,
     body |-> [success |-> TRUE,
               data |-> [phase_shifts |-> phase_shifts,
                         r_matrices |-> r_matrices,
                         potentials |-> potentials,
                         cross_sections |-> cross_sections,
                         parameters |-> [energies |-> req.energies,
                                         L_values |-> req.L_values,
                                         ws_params |-> <<req.V0, req.R0, req.a0>>,
                                         radius |-> req.radius]]]]

\* phase_shifts.append({...}).
phase_append_accumulating(table, E, L, phase_shift) ==
    Append(IF table = <<>> /\ memo.set THEN memo.phase_shifts ELSE table,
           [energy |-> E, L |-> L, phase_shift |-> phase_shift])

phase_append_dedup(table, E, L, phase_shift) ==
    IF \E n \in 1..Len(table) : table[n].energy = E /\ table[n].L = L
    THEN table
    ELSE Append(table, [energy |-> E, L |-> L, phase_shift |-> phase_shift])

phase_append(table, E, L, phase_shift) ==
    Append(table, [energy |-> E, L |-> L, phase_shift |-> phase_shift])

\* The record of one cell of the R-matrix stage.
rmatrix_entry_ref(E, V0, R0, a0, radius, L) ==
    [energy |-> E, L |-> L,
     r_nuclear |-> r_matrix_nuclear_only(E, RefV0, RefR0, RefA0, radius, L),
     r_coulomb_nuclear |-> r_matrix_coulomb_nuclear(E, V0, R0, a0, radius, L)]

rmatrix_entry(E, V0, R0, a0, radius, L) ==
    [energy |-> E, L |-> L,
     r_nuclear |-> r_matrix_nuclear_only(E, V0, R0, a0, radius, L),
     r_coulomb_nuclear |-> r_matrix_coulomb_nuclear(E, V0, R0, a0, radius, L)]

\* An exception leaves the try block: the handler answers 500 and is done.
Fail(name) ==
    /\ pc' = "failed"
    /\ sent' = Append(sent, ErrorResponse(name))

\* A body of bodies has been read and converted; the tables are created empty.
ReceiveFrom(bodies) ==
    /\ pc = "idle"
    /\ \E b \in bodies :
          /\ parse_raises(b) = ""
          /\ post_data' = b
          /\ req' = parse_locals(b.value.members)
    /\ pc' = "phase"
    /\ i' = 1
    /\ j' = 1
    /\ phase_shifts' = <<>>
    /\ r_matrices' = <<>>
    /\ potentials' = <<>>
    /\ cross_sections' = <<>>
    /\ sent' = <<>>
    /\ call' = <<>>
    /\ UNCHANGED <<memo, tasks>>

\* A body of bodies has been read and json.loads or a conversion raised.
RejectFrom(bodies) ==
    /\ pc = "idle"
    /\ \E b \in bodies :
          /\ parse_raises(b) # ""
          /\ post_data' = b
          /\ Fail(parse_raises(b))
    /\ UNCHANGED <<req, i, j, phase_shifts, r_matrices, potentials,
                   cross_sections, call, memo, tasks>>

Receive == ReceiveFrom(Bodies)

Reject == RejectFrom(Bodies)

\* Body of the inner loop of the phase-shift stage.
PhaseCell ==
    /\ pc = "phase"
    /\ i <= Len(req.energies)
    /\ j <= Len(req.L_values)
    /\ \E f \in {nuclear_phase_shift_frame(req.energies[i], req.V0, req.R0,
                                           req.a0, req.radius, req.L_values[j])} :
          /\ call' = <<f>>
          /\ IF IsExc(f.ret)
             THEN /\ Fail(f.ret.k)
                  /\ UNCHANGED <<j, phase_shifts>>
             ELSE /\ phase_shifts' = phase_append(phase_shifts, f.E, f.L, f.ret)
                  /\ j' = j + 1
                  /\ UNCHANGED <<pc, sent>>
    /\ UNCHANGED <<req, i, r_matrices, potentials, cross_sections>>
    /\ UNCHANGED <<post_data, memo, tasks>>

\* The inner loop is exhausted: next energy.
PhaseNextEnergy ==
    /\ pc = "phase"
    /\ i <= Len(req.energies)
    /\ j > Len(req.L_values)
    /\ i' = i + 1
    /\ j' = 1
    /\ UNCHANGED <<pc, req, phase_shifts, r_matrices, potentials, cross_sections,
                   sent, call>>
    /\ UNCHANGED <<post_data, memo, tasks>>

PhaseDone ==
    /\ pc = "phase"
    /\ i > Len(req.energies)
    /\ pc' = "rmat"
    /\ i' = 1
    /\ j' = 1
    /\ UNCHANGED <<req, phase_shifts, r_matrices, potentials, cross_sections,
                   sent, call>>
    /\ UNCHANGED <<post_data, memo, tasks>>

\* Body of the inner loop of the R-matrix stage.
RMatrixCell ==
    /\ pc = "rmat"
    /\ i <= Len(req.energies)
    /\ j <= Len(req.L_values)
    /\ \E entry \in {rmatrix_entry(req.energies[i], req.V0, req.R0, req.a0,
                                     req.radius, req.L_values[j])} :
          IF FirstExc(<<entry.r_nuclear, entry.r_coulomb_nuclear>>) # ""
          THEN /\ Fail(FirstExc(<<entry.r_nuclear, entry.r_coulomb_nuclear>>))
               /\ UNCHANGED <<j, r_matrices>>
          ELSE /\ r_matrices' = Append(r_matrices, entry)
               /\ j' = j + 1
               /\ UNCHANGED <<pc, sent>>
    /\ UNCHANGED <<req, i, phase_shifts, potentials, cross_sections, call>>
    /\ UNCHANGED <<post_data, memo, tasks>>

RMatrixNextEnergy ==
    /\ pc = "rmat"
    /\ i <= Len(req.energies)
    /\ j > Len(req.L_values)
    /\ i' = i + 1
    /\ j' = 1
    /\ UNCHANGED <<pc, req, phase_shifts, r_matrices, potentials, cross_sections,
                   sent, call>>
    /\ UNCHANGED <<post_data, memo, tasks>>

RMatrixDone ==
    /\ pc = "rmat"
    /\ i > Len(req.energies)
    /\ pc' = "pot"
    /\ i' = 1
    /\ j' = 1
    /\ UNCHANGED <<req, phase_shifts, r_matrices, potentials, cross_sections,
                   sent, call>>
    /\ UNCHANGED <<post_data, memo, tasks>>

\* Body of the loop over the radii of the potential sweep.
PotentialSample ==
    /\ pc = "pot"
    /\ i <= NRadii
    /\ \E ws \in {woods_saxon(radii(i), req.V0, req.R0, req.a0)},
          coulomb \in {coulomb_potential(radii(i), req.R0)} :
          IF FirstExc(<<ws, coulomb>>) # ""
          THEN /\ Fail(FirstExc(<<ws, coulomb>>))
               /\ UNCHANGED <<i, potentials>>
          ELSE /\ potentials' = Append(potentials,
                     [radius |-> radii(i), woods_saxon |-> ws, coulomb |-> coulomb,
                      combined |-> FAdd(ws, coulomb)])
               /\ i' = i + 1
               /\ UNCHANGED <<pc, sent>>
    /\ UNCHANGED <<req, j, phase_shifts, r_matrices, cross_sections, call>>
    /\ UNCHANGED <<post_data, memo, tasks>>

PotentialDone ==
    /\ pc = "pot"
    /\ i > NRadii
    /\ pc' = "cs"
    /\ i' = 1
    /\ UNCHANGED <<req, j, phase_shifts, r_matrices, potentials, cross_sections,
                   sent, call>>
    /\ UNCHANGED <<post_data, memo, tasks>>

\* Body of the loop of the cross-section stage: one energy, all its L.
CrossSection ==
    /\ pc = "cs"
    /\ i <= Len(req.energies)
    /\ \E total \in {total_cs(req.energies[i], req.V0, req.R0, req.a0,
                                req.radius, req.L_values)} :
          /\ call' = IF req.L_values = <<>> THEN call
                     ELSE <<LastCall(req.energies[i], req.V0, req.R0, req.a0,
                                     req.radius, req.L_values)>>
          /\ IF IsExc(total)
             THEN /\ Fail(total.k)
                  /\ UNCHANGED <<i, cross_sections>>
             ELSE /\ cross_sections' = Append(cross_sections,
                        [energy |-> req.energies[i], total_cross_section |-> total])
                  /\ i' = i + 1
                  /\ UNCHANGED <<pc, sent>>
    /\ UNCHANGED <<req, j, phase_shifts, r_matrices, potentials>>
    /\ UNCHANGED <<post_data, memo, tasks>>

\* All four tables are built: status 200 and the body with the tables.
Respond ==
    /\ pc = "cs"
    /\ i > Len(req.energies)
    /\ pc' = "done"
    /\ sent' = Append(sent, SuccessResponse)
    /\ UNCHANGED <<req, i, j, phase_shifts, r_matrices, potentials, cross_sections,
                   call>>
    /\ UNCHANGED <<post_data, memo, tasks>>

\* do_POST returns: its locals are gone.
Leave ==
    /\ pc \in {"done", "failed"}
    /\ pc' = "idle"
    /\ req' = NoRequest
    /\ i' = 1
    /\ j' = 1
    /\ phase_shifts' = <<>>
    /\ r_matrices' = <<>>
    /\ potentials' = <<>>
    /\ cross_sections' = <<>>
    /\ sent' = <<>>
    /\ call' = <<>>
    /\ post_data' = NoBody

\* do_POST returns and the server waits for a request.
Return == Leave /\ UNCHANGED <<memo, tasks>>

Next ==
    \/ Receive
    \/ Reject
    \/ PhaseCell
    \/ PhaseNextEnergy
    \/ PhaseDone
    \/ RMatrixCell
    \/ RMatrixNextEnergy
    \/ RMatrixDone
    \/ PotentialSample
    \/ PotentialDone
    \/ CrossSection
    \/ Respond
    \/ Return

Spec == Init /\ [][Next]_vars

(***************************************************************************)
(* Two runs of the handler on one server: the body, the status and the     *)
(* tables of one finished run are remembered and later runs are compared   *)
(* with it.                                                                *)
(***************************************************************************)
HistoryRequests ==
    {Request(<<E22>>, <<0>>, V23, StdR0, StdA0, Steps(2)),
     Request(<<E22, EHuge>>, <<1, 0>>, V23, StdR0, StdA0, Steps(1)),
     Request(<<>>, <<0>>, V23, StdR0, StdA0, Steps(2)),
     Request(<<E22>>, <<0>>, Zero, StdR0, StdA0, Steps(2)),
     Request(<<E22>>, <<0>>, V23, StdR0, Dec(1, 100), Steps(2)),
     Request(<<E22>>, <<0>>, V23, StdR0, Zero, Steps(2))}

HistoryBodies == {Encode(r) : r \in HistoryRequests} \cup {Body("garbage", JNull)}

\* What the run that is about to return has received and produced.
RunRecord ==
    [set |-> TRUE, between |-> FALSE, post_data |-> post_data,
     status |-> sent[1].status, phase_shifts |-> phase_shifts,
     r_matrices |-> r_matrices, potentials |-> potentials,
     cross_sections |-> cross_sections]

HistoryReceive == ReceiveFrom(HistoryBodies)

HistoryReject == RejectFrom(HistoryBodies)

\* The run returns and is the one later runs are compared with.
Remember == Leave /\ memo' = RunRecord /\ UNCHANGED tasks

\* The run returns; a run on another body has now followed the remembered one.
Pass ==
    /\ Leave
    /\ memo' = IF memo.set /\ memo.post_data # post_data
               THEN [memo EXCEPT !.between = TRUE] ELSE memo
    /\ UNCHANGED tasks

HistoryNext ==
    \/ HistoryReceive
    \/ HistoryReject
    \/ PhaseCell
    \/ PhaseNextEnergy
    \/ PhaseDone
    \/ RMatrixCell
    \/ RMatrixNextEnergy
    \/ RMatrixDone
    \/ PotentialSample
    \/ PotentialDone
    \/ CrossSection
    \/ Respond
    \/ Remember
    \/ Pass

HistorySpec == Init /\ [][HistoryNext]_vars

(***************************************************************************)
(* The cells of the phase-shift grid as tasks.  A task is one call of      *)
(* nuclear_phase_shift: it holds the arguments E and L, the locals of the  *)
(* R-matrix call it is in (st) and the locals of nuclear_phase_shift.  A   *)
(* step of a task is one iteration, or the return, of the R-matrix call it *)
(* is in; steps of different tasks interleave in any order.                *)
(***************************************************************************)
ParallelRequests ==
    {Request(<<E22, EHuge>>, <<0, 1>>, V23, StdR0, StdA0, Steps(2)),
     Request(<<E22>>, <<1, 0>>, Zero, StdR0, StdA0, Steps(2)),
     Request(<<E22, E22>>, <<1>>, V23, StdR0, StdA0, Steps(1)),
     Request(<<E22>>, <<0, 1>>, V23, StdR0, Zero, Steps(1)),
     Request(<<E22>>, <<0>>, V23, Steps(1), Dec(1, 1000000), Steps(2))}

ParallelBodies == {Encode(r) : r \in ParallelRequests}

\* The locals of an R-matrix call when it reaches its loop.
integrator_start(a) ==
    IF IntRaises(FDiv(a, dr)) # ""
    THEN [IntegratorInit EXCEPT !.exc = IntRaises(FDiv(a, dr))]
    ELSE IntegratorInit

\* The task of the n-th cell, energies outer and L_values inner.
NewTask(r, n) ==
    [E |-> r.energies[(n - 1) \div Len(r.L_values) + 1],
     L |-> r.L_values[((n - 1) % Len(r.L_values)) + 1],
     stage |-> "coulomb_nuclear", st |-> integrator_start(r.radius),
     R_coulomb_nuclear |-> Zero, ret |-> Zero]

\* The locals the call of task number n reads: every call has its own.
frame_of_shared(n) == tasks[1].st

frame_of(n) == tasks[n].st

\* The loop of the call is over.
loop_over(st, a) == st.exc # "" \/ ~(st.n < Trunc(FDiv(a, dr)))

\* r_matrix_coulomb_nuclear has returned R or raised it.
task_after_first(t, R, a) ==
    IF IsExc(R) THEN [t EXCEPT !.stage = "done", !.R_coulomb_nuclear = R, !.ret = R]
    ELSE [t EXCEPT !.stage = "nuclear_only", !.R_coulomb_nuclear = R,
                   !.st = integrator_start(a)]

\* r_matrix_nuclear_only has returned R or raised it.
task_return(t, R) ==
    [t EXCEPT !.stage = "done", !.ret = atan(FSub(t.R_coulomb_nuclear, R))]

\* One step of task t, st being the locals of the call it is in.
task_step(t, st, V0, R0, a0, a) ==
    IF t.stage = "coulomb_nuclear"
    THEN IF loop_over(st, a) THEN task_after_first(t, FDiv(loop_ratio(st), a), a)
         ELSE [t EXCEPT !.st = coulomb_nuclear_step(st, t.E, V0, R0, a0, t.L)]
    ELSE IF loop_over(st, a) THEN task_return(t, loop_ratio(st))
         ELSE [t EXCEPT !.st = nuclear_only_step(st, t.E, RefV0, RefR0, RefA0, t.L)]

\* The exception of the first task, in grid order, that raised; "" if none.
tasks_raised ==
    FirstRaised([n \in 1..Len(tasks) |->
                    IF IsExc(tasks[n].ret) THEN tasks[n].ret.k ELSE ""])

\* The request is converted and one task per cell is created.
SpawnFrom(bodies) ==
    /\ pc = "idle"
    /\ \E b \in bodies :
          /\ parse_raises(b) = ""
          /\ post_data' = b
          /\ req' = parse_locals(b.value.members)
          /\ tasks' = [n \in 1..(Len(parse_locals(b.value.members).energies)
                                  * Len(parse_locals(b.value.members).L_values)) |->
                          NewTask(parse_locals(b.value.members), n)]
    /\ pc' = "tasks"
    /\ UNCHANGED <<i, j, phase_shifts, r_matrices, potentials, cross_sections,
                   sent, call, memo>>

Spawn == SpawnFrom(ParallelBodies)

\* Some unfinished task takes a step.
TaskStep ==
    /\ pc = "tasks"
    /\ \E n \in 1..Len(tasks) :
          /\ tasks[n].stage # "done"
          /\ tasks' = [tasks EXCEPT ![n] = task_step(tasks[n], frame_of(n), req.V0,
                                                     req.R0, req.a0, req.radius)]
    /\ UNCHANGED <<pc, req, i, j, phase_shifts, r_matrices, potentials,
                   cross_sections, sent, call, post_data, memo>>

\* Every task is done and none raised: each result goes to its grid index.
Gather ==
    /\ pc = "tasks"
    /\ \A n \in 1..Len(tasks) : tasks[n].stage = "done"
    /\ tasks_raised = ""
    /\ phase_shifts' = [n \in 1..Len(tasks) |->
                           [energy |-> tasks[n].E, L |-> tasks[n].L,
                            phase_shift |-> tasks[n].ret]]
    /\ pc' = "gathered"
    /\ UNCHANGED <<req, i, j, r_matrices, potentials, cross_sections, sent, call,
                   post_data, memo, tasks>>

\* Every task is done and one raised: the request fails as the loop would.
GatherRaised ==
    /\ pc = "tasks"
    /\ \A n \in 1..Len(tasks) : tasks[n].stage = "done"
    /\ tasks_raised # ""
    /\ Fail(tasks_raised)
    /\ UNCHANGED <<req, i, j, phase_shifts, r_matrices, potentials,
                   cross_sections, call, post_data, memo, tasks>>

\* The tasks are dropped and the server waits for a request.
Disband ==
    /\ pc \in {"gathered", "failed"}
    /\ pc' = "idle"
    /\ req' = NoRequest
    /\ phase_shifts' = <<>>
    /\ sent' = <<>>
    /\ post_data' = NoBody
    /\ tasks' = <<>>
    /\ UNCHANGED <<i, j, r_matrices, potentials, cross_sections, call, memo>>

ParallelNext ==
    \/ Spawn
    \/ TaskStep
    \/ Gather
    \/ GatherRaised
    \/ Disband

ParallelSpec == Init /\ [][ParallelNext]_vars


(***************************************************************************)
(* Requests inside the ranges GET /api/parameters advertises.  Their       *)
(* integrations make thousands of iterations, so the cells run as tasks,   *)
(* one iteration a step; the R-matrix stage evaluates woods_saxon at the   *)
(* radii and with the parameters of the first call of each cell, and the   *)
(* potential sweep follows.                                                *)
(***************************************************************************)
RangeMin == [R0 |-> Dec(5, 10), a0 |-> Dec(1, 10), radius |-> FromInt(1)]

RangeMax == [R0 |-> FromInt(5), a0 |-> FromInt(2), radius |-> FromInt(10)]

RangeRequests ==
    {Request(<<FromInt(10)>>, <<0>>, FromInt(40), RangeMin.R0, RangeMin.a0,
             RangeMax.radius),
     Request(<<FromInt(10)>>, <<1>>, FromInt(40), RangeMax.R0, RangeMax.a0,
             RangeMin.radius),
     Request(<<>>, <<0>>, FromInt(40), RangeMin.R0, Dec(1, 100), RangeMin.radius),
     Request(<<FromInt(10)>>, <<0>>, FromInt(40), RangeMin.R0, Zero, Steps(1))}

RangeBodies == {Encode(r) : r \in RangeRequests}

RangeSpawn == SpawnFrom(RangeBodies)

\* The grid is done and the potential sweep begins.
SweepAfterGrid ==
    /\ pc = "gathered"
    /\ pc' = "pot"
    /\ i' = 1
    /\ UNCHANGED <<req, j, phase_shifts, r_matrices, potentials, cross_sections,
                   sent, call, post_data, memo, tasks>>

\* The sweep is over or the request has failed: the locals are dropped.
RangeLeave ==
    /\ pc \in {"cs", "failed"}
    /\ pc' = "idle"
    /\ req' = NoRequest
    /\ i' = 1
    /\ phase_shifts' = <<>>
    /\ potentials' = <<>>
    /\ sent' = <<>>
    /\ post_data' = NoBody
    /\ tasks' = <<>>
    /\ UNCHANGED <<j, r_matrices, cross_sections, call, memo>>

RangeNext ==
    \/ RangeSpawn
    \/ TaskStep
    \/ Gather
    \/ GatherRaised
    \/ SweepAfterGrid
    \/ PotentialSample
    \/ PotentialDone
    \/ RangeLeave

RangeSpec == Init /\ [][RangeNext]_vars

(***************************************************************************)
(* The response on the wire.  send_response(200), the headers and the      *)
(* write of the body are statements of the try block: when the connection  *)
(* is gone, end_headers or wfile.write raises OSError and the except       *)
(* clause runs after the 200 status line.  Here sent holds one entry per   *)
(* send_response call, with the body written after it, <<>> if none.       *)
(***************************************************************************)
ResponseRequests ==
    {Request(<<E22>>, <<0>>, V23, StdR0, StdA0, Steps(1)),
     Request(<<E22, E22>>, <<1>>, V23, StdR0, StdA0, Steps(2)),
     Request(<<E22>>, <<0>>, V23, StdR0, Zero, Steps(1))}

ResponseBodies == {Encode(r) : r \in ResponseRequests} \cup {Body("garbage", JNull)}

\* send_response(code): the status line, no body written yet.
StatusLine(code) == [status |-> code, body |-> <<>>]

ResponseReceive == ReceiveFrom(ResponseBodies)

ResponseReject == RejectFrom(ResponseBodies)

\* The response dict is built and send_response(200) is called.
SendStatus ==
    /\ pc = "cs"
    /\ i > Len(req.energies)
    /\ pc' = "write"
    /\ sent' = Append(sent, StatusLine(200))
    /\ UNCHANGED <<req, i, j, phase_shifts, r_matrices, potentials, cross_sections,
                   call, post_data, memo, tasks>>

\* The headers and the body reach the client.
WriteBody ==
    /\ pc = "write"
    /\ pc' = "done"
    /\ sent' = [sent EXCEPT ![Len(sent)] = SuccessResponse]
    /\ UNCHANGED <<req, i, j, phase_shifts, r_matrices, potentials, cross_sections,
                   call, post_data, memo, tasks>>

\* The connection is gone: end_headers or wfile.write raises, and the except
\* clause calls send_response(500).
WriteRaises ==
    /\ pc = "write"
    /\ pc' = "except"
    /\ sent' = Append(sent, StatusLine(500))
    /\ UNCHANGED <<req, i, j, phase_shifts, r_matrices, potentials, cross_sections,
                   call, post_data, memo, tasks>>

\* The except clause writes its body, or its write raises too and the
\* exception leaves do_POST.
ExceptWrite ==
    /\ pc = "except"
    /\ pc' = "failed"
    /\ \/ sent' = [sent EXCEPT ![Len(sent)] = ErrorResponse("ConnectionResetError")]
       \/ sent' = sent
    /\ UNCHANGED <<req, i, j, phase_shifts, r_matrices, potentials, cross_sections,
                   call, post_data, memo, tasks>>

ResponseNext ==
    \/ ResponseReceive
    \/ ResponseReject
    \/ PhaseCell
    \/ PhaseNextEnergy
    \/ PhaseDone
    \/ RMatrixCell
    \/ RMatrixNextEnergy
    \/ RMatrixDone
    \/ PotentialSample
    \/ PotentialDone
    \/ CrossSection
    \/ SendStatus
    \/ WriteBody
    \/ WriteRaises
    \/ ExceptWrite
    \/ Return

ResponseSpec == Init /\ [][ResponseNext]_vars

(***************************************************************************)
(* Properties                                                              *)
(***************************************************************************)
nE == Len(req.energies)

nL == Len(req.L_values)

PhaseStageOver == pc \in {"rmat", "pot", "cs", "done"}

RMatrixStageOver == pc \in {"pot", "cs", "done"}

\* C1: once the phase-shift stage is over, phase_shifts has exactly
\* len(energies) * len(L_values) entries and the entry of the a-th energy
\* and b-th L (energies outer, L inner) carries that energy and that L,
\* duplicates included; the success response carries this table.
C1_PhaseShiftGrid ==
    /\ PhaseStageOver =>
         /\ Len(phase_shifts) = nE * nL
         /\ \A a \in 1..nE, b \in 1..nL :
               /\ phase_shifts[(a - 1) * nL + b].energy = req.energies[a]
               /\ phase_shifts[(a - 1) * nL + b].L = req.L_values[b]
    /\ pc = "done" => sent[1].body.data.phase_shifts = phase_shifts

C1_Witness ==
    /\ pc = "done"
    /\ nE = 2 /\ req.energies[1] = req.energies[2]
    /\ nL = 2 /\ req.L_values[1] = req.L_values[2]

\* C2: once the R-matrix stage is over, r_matrices has the length of
\* phase_shifts and the same (energy, L) at every index, and each entry
\* holds both variants computed with the parameters of the request.
C2_RMatrixGrid ==
    /\ RMatrixStageOver =>
         /\ Len(r_matrices) = Len(phase_shifts)
         /\ \A n \in 1..Len(r_matrices) :
               /\ r_matrices[n].energy = phase_shifts[n].energy
               /\ r_matrices[n].L = phase_shifts[n].L
    /\ pc = "done" =>
         \A n \in 1..Len(r_matrices) :
            LET e == r_matrices[n]
            IN /\ e.r_nuclear =
                    r_matrix_nuclear_only(e.energy, req.V0, req.R0, req.a0,
                                          req.radius, e.L)
               /\ e.r_coulomb_nuclear =
                    r_matrix_coulomb_nuclear(e.energy, req.V0, req.R0, req.a0,
                                             req.radius, e.L)

C2_Witness ==
    /\ pc = "done"
    /\ Len(r_matrices) = 4
    /\ ~IsZero(req.V0)
    /\ \A n \in 1..4 : /\ IsFinite(r_matrices[n].r_nuclear)
                       /\ IsFinite(r_matrices[n].r_coulomb_nuclear)
                       /\ r_matrices[n].r_nuclear # r_matrices[n].r_coulomb_nuclear

\* The square of the sine of the phase shift of the n-th L at energy E.
SinSquared(E, n) ==
    LET sn == sin(nuclear_phase_shift(E, req.V0, req.R0, req.a0, req.radius,
                                      req.L_values[n]))
    IN FMul(sn, sn)

\* The sum, without weights, of the first n squared sines at energy E.
RECURSIVE UnweightedSum(_, _)
UnweightedSum(E, n) ==
    IF n = 0 THEN Zero ELSE FAdd(UnweightedSum(E, n - 1), SinSquared(E, n))

C4_PhaseShiftFormula ==
    (pc \in {"phase", "failed", "done"} /\ call # <<>>) =>
        LET f == call[1]
        IN /\ f.V0 = req.V0 /\ f.R0 = req.R0 /\ f.a0 = req.a0 /\ f.a = req.radius
           /\ f.R_coulomb_nuclear =
                r_matrix_coulomb_nuclear(f.E, f.V0, f.R0, f.a0, f.a, f.L)
           /\ ~IsExc(f.R_coulomb_nuclear) =>
                f.R_coulomb_only =
                   r_matrix_nuclear_only(f.E, Zero, FromInt(2), Dec(6, 10), f.a, f.L)
           /\ f.ret = atan(FSub(f.R_coulomb_nuclear, f.R_coulomb_only))

C4_Witness ==
    /\ pc = "phase"
    /\ call # <<>>
    /\ ~IsZero(call[1].V0)
    /\ call[1].R0 # FromInt(2)
    /\ IsFinite(call[1].ret)
    /\ Len(phase_shifts) > 0
    /\ phase_shifts[Len(phase_shifts)].phase_shift = call[1].ret

\* C5: with V0 = 0 the two R-matrix values of a call of nuclear_phase_shift
\* are equal and the returned phase shift is 0.
C5_PureCoulombCancels ==
    (call # <<>> /\ IsZero(call[1].V0) /\ ~IsExc(call[1].ret)) =>
        /\ call[1].R_coulomb_nuclear = call[1].R_coulomb_only
        /\ IsZero(call[1].ret)

\* C6: a value returned by nuclear_phase_shift lies strictly between
\* -pi/2 and pi/2.
C6_PrincipalValue ==
    (call # <<>> /\ ~IsExc(call[1].ret)) =>
        /\ FLt(FNeg(HalfPi), call[1].ret)
        /\ FLt(call[1].ret, HalfPi)

\* a0 <= 0, R0 <= 0, radius <= 0 or radius not larger than the step.
InvalidParameter(r) ==
    \/ FLe(r.a0, Zero)
    \/ FLe(r.R0, Zero)
    \/ FLe(r.radius, Zero)
    \/ FLe(r.radius, dr)

\* C7: a request with an invalid parameter is rejected before any
\* integration: it never gets a table entry nor a success response.
C7_InvalidParameterRejected ==
    (pc # "idle" /\ InvalidParameter(req)) =>
        /\ pc \in {"phase", "failed"}
        /\ phase_shifts = <<>>
        /\ r_matrices = <<>>
        /\ potentials = <<>>
        /\ cross_sections = <<>>

\* C8: no success response carries a number that is not finite, in any table.
C8_SuccessIsFinite ==
    pc = "done" =>
        /\ \A n \in 1..Len(phase_shifts) : IsFinite(phase_shifts[n].phase_shift)
        /\ \A n \in 1..Len(r_matrices) :
              /\ IsFinite(r_matrices[n].r_nuclear)
              /\ IsFinite(r_matrices[n].r_coulomb_nuclear)
        /\ \A n \in 1..Len(potentials) :
              /\ IsFinite(potentials[n].woods_saxon)
              /\ IsFinite(potentials[n].coulomb)
              /\ IsFinite(potentials[n].combined)
        /\ \A n \in 1..Len(cross_sections) :
              IsFinite(cross_sections[n].total_cross_section)

\* C9: woods_saxon returns a value for every r >= 0 when a0 > 0: no
\* evaluation of the potential sweep raises.
C9_WoodsSaxonTotal ==
    (pc = "pot" /\ i <= NRadii /\ FGt(req.a0, Zero)) =>
        ~IsExc(woods_saxon(radii(i), req.V0, req.R0, req.a0))

\* The evaluation the handler is about to make raises.
NextEvaluationRaises ==
    \/ /\ pc = "phase" /\ i <= nE /\ j <= nL
       /\ IsExc(nuclear_phase_shift(req.energies[i], req.V0, req.R0, req.a0,
                                    req.radius, req.L_values[j]))
    \/ /\ pc = "rmat" /\ i <= nE /\ j <= nL
       /\ \/ IsExc(r_matrix_nuclear_only(req.energies[i], req.V0, req.R0, req.a0,
                                         req.radius, req.L_values[j]))
          \/ IsExc(r_matrix_coulomb_nuclear(req.energies[i], req.V0, req.R0,
                                            req.a0, req.radius, req.L_values[j]))
    \/ /\ pc = "pot" /\ i <= NRadii
       /\ \/ IsExc(woods_saxon(radii(i), req.V0, req.R0, req.a0))
          \/ IsExc(coulomb_potential(radii(i), req.R0))
    \/ /\ pc = "cs" /\ i <= nE
       /\ \E n \in 1..nL :
             IsExc(nuclear_phase_shift(req.energies[i], req.V0, req.R0, req.a0,
                                       req.radius, req.L_values[n]))

\* The request has been answered by one 500 response without any table.
Aborted ==
    /\ pc = "failed"
    /\ Len(sent) = 1
    /\ sent[1].status = 500
    /\ DOMAIN sent[1].body = {"success", "error"}
    /\ sent[1].body.success = FALSE

\* C10: when an evaluation raises in any stage, the request is aborted with
\* status 500, success = false and an error string, and the response has
\* none of the tables, however many cells were computed before.
C10_AbortOnRaise == [][NextEvaluationRaises => Aborted']_vars

C10_Witness ==
    /\ Aborted
    /\ Len(phase_shifts) > 0
    /\ Len(r_matrices) > 0
    /\ Len(potentials) > 0

\* A value float() turns into a number.
NumberLike(v) ==
    \/ v.t \in {"int", "float"}
    \/ v.t = "str" /\ ~IsExc(float_of_str(v.chars))

\* The body is not JSON, is not an object with the six fields, or holds a
\* value that is not a number where one is expected.
Malformed(body) ==
    \/ body.text # "json"
    \/ body.value.t # "dict"
    \/ /\ body.value.t = "dict"
       /\ \/ \E k \in 1..Len(RequestFields) :
                RequestFields[k] \notin DOMAIN body.value.members
          \/ \E name \in {"V0", "R0", "a0", "radius"} \cap DOMAIN body.value.members :
                ~NumberLike(body.value.members[name])
          \/ \E name \in {"energies", "L_values"} \cap DOMAIN body.value.members :
                \/ body.value.members[name].t = "null"
                \/ /\ body.value.members[name].t = "list"
                   /\ \E k \in 1..Len(body.value.members[name].items) :
                         ~NumberLike(body.value.members[name].items[k])

\* C11: a body that is not valid JSON, lacks a field or holds a value that is
\* no number is answered by an error response and no core function is
\* called for it: no table gets an entry and no phase-shift call is made.
C11_MalformedRejected ==
    (pc # "idle" /\ Malformed(post_data)) =>
        /\ pc = "failed"
        /\ Len(sent) = 1 /\ sent[1].status = 500 /\ sent[1].body.success = FALSE
        /\ call = <<>>
        /\ phase_shifts = <<>> /\ r_matrices = <<>>
        /\ potentials = <<>> /\ cross_sections = <<>>

\* The run has ended, with a response sent.
RunOver == pc \in {"done", "failed"}

\* C12: a run on the body of the remembered run ends with the status and
\* the four tables of the remembered run, whatever ran in between.
C12_Deterministic ==
    (RunOver /\ memo.set /\ memo.post_data = post_data) =>
        /\ sent[1].status = memo.status
        /\ phase_shifts = memo.phase_shifts
        /\ r_matrices = memo.r_matrices
        /\ potentials = memo.potentials
        /\ cross_sections = memo.cross_sections

C12_Witness ==
    /\ pc = "done"
    /\ memo.set /\ memo.post_data = post_data /\ memo.between
    /\ Len(phase_shifts) = 4 /\ Len(r_matrices) = 4 /\ Len(cross_sections) = 2
    /\ Len(potentials) = NRadii

\* The locals the remembered run converted from its body.
MemoRequest == parse_locals(memo.post_data.value.members)

\* The remembered run and the present one both succeeded, on the same V0,
\* R0 and a0.
SameWoodsSaxon ==
    /\ pc = "done"
    /\ memo.set /\ memo.status = 200
    /\ MemoRequest.V0 = req.V0 /\ MemoRequest.R0 = req.R0 /\ MemoRequest.a0 = req.a0

\* C15: two successful runs that agree on V0, R0 and a0 have the same
\* potentials table, whatever their energies, L_values and channel radius.
C15_PotentialsOfWoodsSaxonOnly == SameWoodsSaxon => potentials = memo.potentials

C15_Witness ==
    /\ SameWoodsSaxon
    /\ MemoRequest.energies # req.energies
    /\ MemoRequest.L_values # req.L_values
    /\ MemoRequest.radius # req.radius
    /\ Len(potentials) = NRadii

\* The table the nested loops of the handler build for the request: entry
\* number n is the cell of energy (n - 1) div nL + 1 and L (n - 1) mod nL + 1.
SequentialTable ==
    [n \in 1..(nE * nL) |->
        [energy |-> req.energies[(n - 1) \div nL + 1],
         L |-> req.L_values[((n - 1) % nL) + 1],
         phase_shift |-> nuclear_phase_shift(req.energies[(n - 1) \div nL + 1],
                                             req.V0, req.R0, req.a0, req.radius,
                                             req.L_values[((n - 1) % nL) + 1])]]

\* C13: whatever the order in which the steps of the cell tasks interleave,
\* the table gathered by grid index is the table the sequential loop
\* builds, and the tasks fail only when a cell of the loop raises.
C13_CellsIndependent ==
    /\ pc = "gathered" => phase_shifts = SequentialTable
    /\ (pc = "failed" /\ tasks # <<>>) =>
          \E n \in 1..(nE * nL) : IsExc(SequentialTable[n].phase_shift)

\* Four tasks run out of grid order: the fourth and the second are done,
\* the third is in its second call and the first still in its first.
C13_Witness ==
    /\ pc = "tasks"
    /\ Len(tasks) = 4
    /\ tasks[4].stage = "done"
    /\ tasks[2].stage = "done" /\ IsFinite(tasks[2].ret)
    /\ tasks[3].stage = "nuclear_only" /\ tasks[3].st.n = 1
    /\ tasks[1].stage = "coulomb_nuclear" /\ tasks[1].st.n = 1

\* C14: a successful response has exactly 100 potential samples, the n-th
\* at radius n * 0.1, each radius strictly above the one before it, and the
\* combined value of each sample is its woods_saxon plus its coulomb value.
C14_PotentialSweep ==
    pc = "done" =>
        /\ Len(sent[1].body.data.potentials) = 100
        /\ \A n \in 1..Len(sent[1].body.data.potentials) :
              /\ sent[1].body.data.potentials[n].radius = FMul(FromInt(n), Dec(1, 10))
              /\ n > 1 => FLt(sent[1].body.data.potentials[n - 1].radius,
                              sent[1].body.data.potentials[n].radius)
              /\ sent[1].body.data.potentials[n].combined
                    = FAdd(sent[1].body.data.potentials[n].woods_saxon,
                           sent[1].body.data.potentials[n].coulomb)

\* A success response whose first and last samples have a nuclear and a
\* Coulomb part, the last radius being 100 times the first.
C14_Witness ==
    /\ pc = "done"
    /\ Len(sent[1].body.data.potentials) = 100
    /\ \A n \in {1, 100} :
          /\ IsFinite(sent[1].body.data.potentials[n].woods_saxon)
          /\ ~IsZero(sent[1].body.data.potentials[n].woods_saxon)
          /\ ~IsZero(sent[1].body.data.potentials[n].coulomb)
          /\ sent[1].body.data.potentials[n].combined
                # sent[1].body.data.potentials[n].woods_saxon

\* Every parameter of the request is valid and every energy a positive
\* finite number, every L a non-negative integer.
ValidRequest ==
    /\ ~InvalidParameter(req)
    /\ IsFinite(req.V0) /\ IsFinite(req.R0) /\ IsFinite(req.a0)
    /\ IsFinite(req.radius)
    /\ \A n \in 1..nE : IsFinite(req.energies[n]) /\ FGt(req.energies[n], Zero)
    /\ \A n \in 1..nL : req.L_values[n] >= 0

\* C16: every total_cross_section of a success response to a valid request
\* is a number that is not below zero.
C16_CrossSectionNonNegative ==
    (pc = "done" /\ ValidRequest) =>
        \A n \in 1..Len(sent[1].body.data.cross_sections) :
            FLe(Zero, sent[1].body.data.cross_sections[n].total_cross_section)

\* The sample of the sweep taken at the nuclear radius, if there is one.
AtNuclearRadius(n) == n \in 1..Len(potentials) /\ potentials[n].radius = req.R0

\* C17: at r = r0 > 0 coulomb_potential returns Z1Z2EE / r0, the value of
\* the exterior formula there.
C17_CoulombContinuous ==
    \A n \in 1..NRadii :
        (AtNuclearRadius(n) /\ FGt(req.R0, Zero)) =>
            potentials[n].coulomb = FDiv(Z1Z2EE, req.R0)

\* C18: for a0 > 0 the Woods-Saxon value at r = R0 is -V0 / 2 exactly.
C18_HalfDepth ==
    \A n \in 1..NRadii :
        (AtNuclearRadius(n) /\ FGt(req.a0, Zero)) =>
            potentials[n].woods_saxon = FDiv(FNeg(req.V0), FromInt(2))

\* The sweep has passed a nuclear radius where the well has a depth.
C18_Witness ==
    \E n \in 2..NRadii :
        /\ AtNuclearRadius(n)
        /\ FGt(req.a0, Zero)
        /\ FGt(req.V0, Zero)
        /\ FLt(potentials[n].woods_saxon, Zero)
        /\ potentials[n - 1].woods_saxon # potentials[n].woods_saxon

\* C19: for a0 > 0 the value woods_saxon returns at a radius of the sweep is
\* below zero and not below -V0 when V0 > 0, and zero when V0 = 0.
C19_SignConvention ==
    (pc = "pot" /\ i <= NRadii /\ FGt(req.a0, Zero)) =>
        /\ FGt(req.V0, Zero) =>
              /\ FLt(woods_saxon(radii(i), req.V0, req.R0, req.a0), Zero)
              /\ FLe(FNeg(req.V0), woods_saxon(radii(i), req.V0, req.R0, req.a0))
        /\ IsZero(req.V0) =>
              IsZero(woods_saxon(radii(i), req.V0, req.R0, req.a0))

\* C20: every record of phase_shifts and r_matrices in a success response
\* has an integer L that is not negative.
C20_NonNegativeL ==
    pc = "done" =>
        /\ \A n \in 1..Len(sent[1].body.data.phase_shifts) :
              /\ sent[1].body.data.phase_shifts[n].L \in Int
              /\ sent[1].body.data.phase_shifts[n].L >= 0
        /\ \A n \in 1..Len(sent[1].body.data.r_matrices) :
              /\ sent[1].body.data.r_matrices[n].L \in Int
              /\ sent[1].body.data.r_matrices[n].L >= 0

\* The members of the body the run has read and the parameters it echoes.
PostedMembers == post_data.value.members

EchoedParameters == sent[1].body.data.parameters

\* C21: the parameters of a success response are the values of the body
\* after conversion: the energies as floats and the L_values as ints, each in
\* the order of the body, ws_params = [V0, R0, a0] and radius.
C21_ParametersEcho ==
    pc = "done" =>
        /\ EchoedParameters.energies
              = [k \in 1..Len(items_of(PostedMembers.energies)) |->
                    to_float(items_of(PostedMembers.energies)[k])]
        /\ EchoedParameters.L_values
              = [k \in 1..Len(items_of(PostedMembers.L_values)) |->
                    to_int(items_of(PostedMembers.L_values)[k])]
        /\ EchoedParameters.ws_params
              = <<to_float(PostedMembers.V0), to_float(PostedMembers.R0),
                  to_float(PostedMembers.a0)>>
        /\ EchoedParameters.radius = to_float(PostedMembers.radius)

\* A success response to a body whose two L_values differ and whose R0 and
\* a0 differ.
C21_Witness ==
    /\ pc = "done"
    /\ Len(EchoedParameters.energies) = 2
    /\ EchoedParameters.energies[1] # EchoedParameters.energies[2]
    /\ EchoedParameters.L_values = <<1, 0>>
    /\ EchoedParameters.ws_params[2] # EchoedParameters.ws_params[3]
    /\ PostedMembers.L_values = JList(<<JInt(1), JInt(0)>>)

\* The tables the handler builds from the locals r, as functions of r alone.
CellEnergy(r, n) == r.energies[(n - 1) \div Len(r.L_values) + 1]

CellL(r, n) == r.L_values[((n - 1) % Len(r.L_values)) + 1]

PhaseTableOf(r) ==
    [n \in 1..(Len(r.energies) * Len(r.L_values)) |->
        [energy |-> CellEnergy(r, n), L |-> CellL(r, n),
         phase_shift |-> nuclear_phase_shift(CellEnergy(r, n), r.V0, r.R0, r.a0,
                                             r.radius, CellL(r, n))]]

RMatrixTableOf(r) ==
    [n \in 1..(Len(r.energies) * Len(r.L_values)) |->
        [energy |-> CellEnergy(r, n), L |-> CellL(r, n),
         r_nuclear |-> r_matrix_nuclear_only(CellEnergy(r, n), r.V0, r.R0, r.a0,
                                             r.radius, CellL(r, n)),
         r_coulomb_nuclear |-> r_matrix_coulomb_nuclear(CellEnergy(r, n), r.V0,
                                                        r.R0, r.a0, r.radius,
                                                        CellL(r, n))]]

PotentialTableOf(r) ==
    [n \in 1..100 |->
        [radius |-> FMul(FromInt(n), Dec(1, 10)),
         woods_saxon |-> woods_saxon(FMul(FromInt(n), Dec(1, 10)), r.V0, r.R0, r.a0),
         coulomb |-> coulomb_potential(FMul(FromInt(n), Dec(1, 10)), r.R0),
         combined |-> FAdd(woods_saxon(FMul(FromInt(n), Dec(1, 10)), r.V0, r.R0,
                                       r.a0),
                           coulomb_potential(FMul(FromInt(n), Dec(1, 10)), r.R0))]]

\* The sum of the squared sines of the first n phase shifts at energy E.
RECURSIVE SquaredSinesOf(_, _, _)
SquaredSinesOf(r, E, n) ==
    IF n = 0 THEN Zero
    ELSE FAdd(SquaredSinesOf(r, E, n - 1),
              pow2(sin(nuclear_phase_shift(E, r.V0, r.R0, r.a0, r.radius,
                                           r.L_values[n]))))

CrossSectionTableOf(r) ==
    [a \in 1..Len(r.energies) |->
        [energy |-> r.energies[a],
         total_cross_section |-> SquaredSinesOf(r, r.energies[a], Len(r.L_values))]]

\* The values the four stages compute, in the order they compute them.
ValuesOf(r) ==
    [n \in 1..Len(PhaseTableOf(r)) |-> PhaseTableOf(r)[n].phase_shift]
    \o [n \in 1..(2 * Len(RMatrixTableOf(r))) |->
           IF n % 2 = 1 THEN RMatrixTableOf(r)[(n + 1) \div 2].r_nuclear
           ELSE RMatrixTableOf(r)[n \div 2].r_coulomb_nuclear]
    \o [n \in 1..200 |->
           IF n % 2 = 1 THEN PotentialTableOf(r)[(n + 1) \div 2].woods_saxon
           ELSE PotentialTableOf(r)[n \div 2].coulomb]
    \o [a \in 1..Len(r.energies) |-> CrossSectionTableOf(r)[a].total_cross_section]

\* The exception of the first of vals that is one, "" if none is.
FirstRaisedOf(vals) ==
    IF \A n \in 1..Len(vals) : ~IsExc(vals[n]) THEN ""
    ELSE vals[CHOOSE n \in 1..Len(vals) :
                 IsExc(vals[n]) /\ \A m \in 1..(n - 1) : ~IsExc(vals[m])].k

\* The response to the locals r.
ResponseOfLocals(r) ==
    IF FirstRaisedOf(ValuesOf(r)) # ""
    THEN [status |-> 500,
          body |-> [success |-> FALSE, error |-> FirstRaisedOf(ValuesOf(r))]]
    ELSE [status |-> 200,
          body |-> [success |-> TRUE,
                    data |-> [phase_shifts |-> PhaseTableOf(r),
                              r_matrices |-> RMatrixTableOf(r),
                              potentials |-> PotentialTableOf(r),
                              cross_sections |-> CrossSectionTableOf(r),
                              parameters |-> [energies |-> r.energies,
                                              L_values |-> r.L_values,
                                              ws_params |-> <<r.V0, r.R0, r.a0>>,
                                              radius |-> r.radius]]]]

\* The response to a body, from the body alone.
ResponseOf(body) ==
    IF parse_raises(body) # ""
    THEN [status |-> 500,
          body |-> [success |-> FALSE, error |-> parse_raises(body)]]
    ELSE ResponseOfLocals(parse_locals(body.value.members))

\* C22: whatever requests ran before, successful or failed, the one response
\* of a run is the function ResponseOf of the body of that run.
C22_NoStateAcrossRequests == RunOver => sent = <<ResponseOf(post_data)>>

\* A success with a full grid that follows a remembered failed run and a run
\* on a third body.
C22_Witness ==
    /\ pc = "done"
    /\ memo.set /\ memo.status = 500 /\ memo.between
    /\ memo.post_data # post_data
    /\ Len(phase_shifts) = 4
    /\ sent = <<ResponseOf(post_data)>>

\* Task n is in r_matrix_nuclear_only and has left its loop without raising.
NuclearOnlyLoopExited(n) ==
    /\ tasks[n].stage = "nuclear_only"
    /\ tasks[n].st.exc = ""
    /\ ~(tasks[n].st.n < Trunc(FDiv(req.radius, dr)))

\* C23: when the loop of r_matrix_nuclear_only exits, the radius x to which
\* ur and dudr have been advanced is the channel radius a.
C23_RatioAtChannelRadius ==
    \A n \in 1..Len(tasks) : NuclearOnlyLoopExited(n) => tasks[n].st.x = req.radius

\* The potential the call task n is in evaluates at radius x.
PotentialOf(n, x) ==
    IF tasks[n].stage = "coulomb_nuclear"
    THEN FAdd(coulomb_potential(x, req.R0), woods_saxon(x, req.V0, req.R0, req.a0))
    ELSE woods_saxon(x, Zero, Dec(20, 10), Dec(6, 10))

\* u'' of the recurrence from the radius and the u task n holds.
SecondDerivative(n) ==
    FMul(FAdd(FDiv(FromInt(tasks[n].L * (tasks[n].L + 1)),
                   FMul(tasks[n].st.x, tasks[n].st.x)),
              FMul(MASS_FACTOR, FSub(PotentialOf(n, tasks[n].st.x), tasks[n].E))),
         tasks[n].st.ur)

\* Task n completes one iteration of its loop in this step.
Iterates(n) ==
    /\ pc = "tasks" /\ pc' = "tasks"
    /\ tasks'[n].stage = tasks[n].stage
    /\ tasks'[n].st.n = tasks[n].st.n + 1

\* Task n leaves the call it is in, without an exception, in this step.
Returns(n) ==
    /\ pc = "tasks" /\ pc' = "tasks"
    /\ tasks'[n].stage # tasks[n].stage
    /\ ~IsExc(tasks'[n].ret)

\* C24: each integration starts at r = dr with u = dr and u' = 1; a step takes
\* u'' from the current r and u, then u' := u' + u'' * dr, then u := u + u' * dr
\* with the new u', then r := r + dr; the ratio returned is u / u' of the
\* last step, divided by a in r_matrix_coulomb_nuclear.
C24_Recurrence ==
    [][\A n \in 1..Len(tasks) :
          /\ (pc = "tasks" /\ tasks[n].stage # "done" /\ tasks[n].st.n = 0) =>
                /\ tasks[n].st.x = dr
                /\ tasks[n].st.ur = dr
                /\ tasks[n].st.dudr = FromInt(1)
          /\ Iterates(n) =>
                /\ tasks'[n].st.d2udr2 = SecondDerivative(n)
                /\ tasks'[n].st.dudr
                      = FAdd(tasks[n].st.dudr, FMul(SecondDerivative(n), dr))
                /\ tasks'[n].st.ur
                      = FAdd(tasks[n].st.ur, FMul(tasks'[n].st.dudr, dr))
                /\ tasks'[n].st.x = FAdd(tasks[n].st.x, dr)
          /\ (Returns(n) /\ tasks[n].stage = "coulomb_nuclear") =>
                tasks'[n].R_coulomb_nuclear
                   = FDiv(FDiv(tasks[n].st.ur, tasks[n].st.dudr), req.radius)
          /\ (Returns(n) /\ tasks[n].stage = "nuclear_only") =>
                tasks'[n].ret
                   = atan(FSub(tasks[n].R_coulomb_nuclear,
                               FDiv(tasks[n].st.ur, tasks[n].st.dudr)))]_vars

\* A task with L = 1 has made two steps of its first integration while
\* another has made a step of its second, the slopes having changed.
C24_Witness ==
    /\ pc = "tasks"
    /\ \E n \in 1..Len(tasks) :
          /\ tasks[n].stage = "coulomb_nuclear" /\ tasks[n].L = 1
          /\ tasks[n].st.n = 2 /\ tasks[n].st.exc = ""
          /\ tasks[n].st.dudr # FromInt(1)
          /\ IsFinite(tasks[n].st.ur)
    /\ \E n \in 1..Len(tasks) :
          /\ tasks[n].stage = "nuclear_only"
          /\ tasks[n].st.n = 1
          /\ tasks[n].st.dudr # FromInt(1)

\* The number of iterations the loops of the request are to make.
StepCount == IF FLt(req.radius, dr) THEN 0 ELSE Trunc(FDiv(req.radius, dr))

\* C25: for a valid diffuseness and a channel radius that is a number, a
\* loop makes no more than N = floor(a / dr) iterations (none when a < dr),
\* and when it ends it has made exactly N.
C25_ExactStepCount ==
    (pc = "tasks" /\ IsFinite(req.radius) /\ FGt(req.a0, Zero)) =>
        \A n \in 1..Len(tasks) :
            tasks[n].stage \in {"coulomb_nuclear", "nuclear_only"} =>
                /\ tasks[n].st.n <= StepCount
                /\ loop_over(tasks[n].st, req.radius) => tasks[n].st.n = StepCount

\* The radius at which iteration k + 1 of an integration evaluates its potential.
RECURSIVE GridPoint(_)
GridPoint(k) == IF k = 0 THEN dr ELSE FAdd(GridPoint(k - 1), dr)

\* The two potentials of the request take equal values at every grid point.
SamePotentials ==
    /\ IntRaises(FDiv(req.radius, dr)) = ""
    /\ \A k \in 0..(Trunc(FDiv(req.radius, dr)) - 1) :
          /\ IsFinite(woods_saxon(GridPoint(k), req.V0, req.R0, req.a0))
          /\ FAdd(coulomb_potential(GridPoint(k), req.R0),
                  woods_saxon(GridPoint(k), req.V0, req.R0, req.a0))
                = woods_saxon(GridPoint(k), req.V0, req.R0, req.a0)

\* C26: when the two potentials agree at every grid point, the two loops run
\* on the same E, a and L hold the same x, ur and dudr after every step and
\* r_coulomb_nuclear is r_nuclear divided by a.
C26_IntegratorsTwin ==
    (RMatrixStageOver /\ SamePotentials) =>
        \A n \in 1..Len(r_matrices) :
            /\ r_matrices[n].r_coulomb_nuclear
                  = FDiv(r_matrices[n].r_nuclear, req.radius)
            /\ \A k \in 0..Trunc(FDiv(req.radius, dr)) :
                  nuclear_only_loop(IntegratorInit, k, r_matrices[n].energy, req.V0,
                                    req.R0, req.a0, r_matrices[n].L)
                    = coulomb_nuclear_loop(IntegratorInit, k, r_matrices[n].energy,
                                           req.V0, req.R0, req.a0, r_matrices[n].L)

\* Two steps were made side by side, the Coulomb term being absorbed but not
\* zero, and the two ratios differ by the division.
C26_Witness ==
    /\ pc = "done"
    /\ SamePotentials
    /\ Trunc(FDiv(req.radius, dr)) = 2
    /\ ~IsZero(coulomb_potential(dr, req.R0))
    /\ Len(r_matrices) = 1
    /\ IsFinite(r_matrices[1].r_nuclear) /\ ~IsZero(r_matrices[1].r_nuclear)
    /\ r_matrices[1].r_coulomb_nuclear # r_matrices[1].r_nuclear

\* The tables of the response sent.
SentData == sent[1].body.data

\* sum(sin(phase_shift)**2) over count entries of the phase-shift table of
\* the response, from entry number first on.
RECURSIVE TableSum(_, _)
TableSum(first, count) ==
    IF count = 0 THEN Zero
    ELSE FAdd(TableSum(first, count - 1),
              pow2(sin(SentData.phase_shifts[first + count - 1].phase_shift)))

C28_OneStatus ==
    /\ Len(sent) <= 1
    /\ \A k \in 1..Len(sent) :
          /\ sent[k].status \in {200, 500}
          /\ (sent[k].status = 200 /\ k < Len(sent)) => sent[k + 1].status # 500
    /\ RunOver =>
          /\ Len(sent) = 1
          /\ sent[1].status = 200 =>
                /\ sent[1].body # <<>> /\ sent[1].body.success = TRUE
                /\ Len(phase_shifts) = nE * nL /\ Len(r_matrices) = nE * nL
                /\ Len(potentials) = 100 /\ Len(cross_sections) = nE
          /\ sent[1].status = 500 =>
                sent[1].body # <<>> /\ sent[1].body.success = FALSE

\* The run is over on a body that converted, with an empty grid and a0 > 0.
EmptyGridRun ==
    /\ RunOver
    /\ parse_raises(post_data) = ""
    /\ nE = 0 \/ nL = 0
    /\ FGt(req.a0, Zero)

\* C29: a request with an empty grid succeeds: phase_shifts and r_matrices
\* are empty, cross_sections has one entry of total 0 per energy (none when
\* energies is empty) and potentials has its 100 samples.
C29_EmptyGrids ==
    EmptyGridRun =>
        /\ pc = "done" /\ sent[1].status = 200
        /\ phase_shifts = <<>> /\ r_matrices = <<>>
        /\ Len(potentials) = 100
        /\ Len(cross_sections) = nE
        /\ \A a \in 1..Len(cross_sections) :
              IsZero(cross_sections[a].total_cross_section)

\* R0, a0 and radius of the request are inside the advertised ranges.
Advertised ==
    /\ FLe(Dec(5, 10), req.R0) /\ FLe(req.R0, FromInt(5))
    /\ FLe(Dec(1, 10), req.a0) /\ FLe(req.a0, FromInt(2))
    /\ FLe(FromInt(1), req.radius) /\ FLe(req.radius, FromInt(10))

\* The argument of the exponential in woods_saxon(r, V0, R0, a0).
ExpArgument(r, R0, a0) == FDiv(FSub(r, R0), a0)

\* The argument is at most 95 and the exponential returns.
Bounded(arg) == FLe(arg, FromInt(95)) /\ ~IsExc(exp(arg))

\* C30: for a request inside the advertised ranges, the argument of the
\* exponential is at most 95 in every woods_saxon evaluation an integration
\* or the sweep is about to make, and the exponential does not overflow.
C30_ExponentBounded ==
    Advertised =>
        /\ pc = "tasks" =>
              \A n \in 1..Len(tasks) :
                  /\ (tasks[n].stage = "coulomb_nuclear"
                         /\ ~loop_over(tasks[n].st, req.radius)) =>
                        Bounded(ExpArgument(tasks[n].st.x, req.R0, req.a0))
                  /\ (tasks[n].stage = "nuclear_only"
                         /\ ~loop_over(tasks[n].st, req.radius)) =>
                        Bounded(ExpArgument(tasks[n].st.x, Dec(20, 10), Dec(6, 10)))
        /\ (pc = "pot" /\ i <= NRadii) =>
              Bounded(ExpArgument(radii(i), req.R0, req.a0))

\* The sweep of the request with the smallest R0 and a0 and the largest
\* radius evaluates its last sample, after an integration up to radius 10.
C30_Witness ==
    /\ Advertised
    /\ pc = "pot" /\ i = 100
    /\ req.R0 = Dec(5, 10) /\ req.a0 = Dec(1, 10) /\ req.radius = FromInt(10)
    /\ Len(tasks) = 1 /\ tasks[1].stage = "done" /\ ~IsExc(tasks[1].ret)
    /\ ExpArgument(radii(i), req.R0, req.a0) = FromInt(95)
    /\ Len(potentials) = 99

====
